---- MODULE Spec2Model ----
(***************************************************************************)
(* Model of the API gateway request pipeline of src/api-gateway/main.py:   *)
(* the metrics middleware, the FastAPI router, the rate limiter dependency, *)
(* the proxy forwarder, and the Redis counter store they share.            *)
(*                                                                         *)
(* A request path is modelled as the sequence path.split('/') produces,    *)
(* e.g. "/api/users/42" is <<"", "api", "users", "42">>.                    *)
(***************************************************************************)
EXTENDS Integers, Sequences, FiniteSets, Bags, TLC

\* ---------------------------------------------------------------- bounds
MaxRequests == 2       \* requests in one behaviour, one task each
MaxInFlight == 2       \* requests handled concurrently
TickStep == 30         \* seconds by which one Tick advances the clock
MaxSegments == 3       \* segments of the paths given to get_base_endpoint

\* ----------------------------------------------------- program constants
Limit == 100           \* main.py:119  count > 100
Window == 60           \* main.py:115  expire(key, 60)

NoTTL == 0 - 1         \* Redis TTL of a key that has no expiry armed

Tasks == 1..MaxRequests
Clients == {"10.0.0.1", "10.0.0.2"}
Methods == {"GET", "POST", "PUT", "DELETE", "PATCH"}

UsersPath == <<"", "api", "users", "42">>
DriversPath == <<"", "api", "drivers", "1">>
HealthPath == <<"", "health">>
MetricsPath == <<"", "metrics">>
UsersPath2 == <<"", "api", "users", "7">>
Paths == {UsersPath, UsersPath2, DriversPath, HealthPath, MetricsPath}

Keys == Clients \X Paths

\* The (method, path) pairs of the requests sent to the gateway.
Requests ==
    (Methods \X {UsersPath})
        \cup ({"GET", "POST"} \X {DriversPath, HealthPath, MetricsPath})

VARIABLES
    redis,            \* key -> [count, ttl]; count = 0: the key does not exist
    age,              \* key -> seconds since the INCR that created the key (capped at Window)
    hits,             \* key -> number of INCRs on the key since it was created
    armed,            \* key -> number of EXPIRE calls on the key since it was created
    win,              \* key -> number of times the key has been created
    req,              \* task -> the request it is handling
    ACTIVE_REQUESTS,  \* gauge
    REQUEST_COUNT,    \* bag of <<method, endpoint, status>>
    REQUEST_DURATION, \* bag of <<method, endpoint>> (one copy per observation)
    RATE_LIMIT_HITS,  \* bag of client_ip
    arg,              \* a path handed to get_base_endpoint
    ret               \* what get_base_endpoint returned for it, <<>> before the call

vars == <<redis, age, hits, armed, win, req,
          ACTIVE_REQUESTS, REQUEST_COUNT, REQUEST_DURATION, RATE_LIMIT_HITS,
          arg, ret>>

fnVars == <<arg, ret>>
storeVars == <<redis, age, hits, armed, win>>
metricVars == <<ACTIVE_REQUESTS, REQUEST_COUNT, REQUEST_DURATION, RATE_LIMIT_HITS>>

\* ------------------------------------------------------- pure functions
Min(a, b) == IF a < b THEN a ELSE b

\* get_base_endpoint: /api/users/123 -> /api/users, anything else unchanged.
\* Python's parts[1], parts[2] are parts[2], parts[3] here (1-based).
get_base_endpoint(parts) ==
    IF Len(parts) >= 3 /\ parts[2] = "api"
    THEN <<"", parts[2], parts[3]>>
    ELSE parts

RateLimitKey_NoPath(client_ip, path) == <<client_ip, UsersPath>>

\* The rate-limit key f"ratelimit:{client_ip}:{request.url.path}".
RateLimitKey(client_ip, path) == <<client_ip, path>>

RouteMethods_Any == Methods

\* Methods the users route is registered for.
RouteMethods == {"GET", "POST", "PUT", "DELETE"}

\* Does the path match "/api/users/{path:path}"?
MatchesUsersRoute(path) ==
    Len(path) >= 4 /\ path[1] = "" /\ path[2] = "api" /\ path[3] = "users"

Match_LimitAll(method, path) ==
    IF path \in {<<"", "health">>, <<"", "metrics">>} \/ MatchesUsersRoute(path)
    THEN "user_service_proxy"
    ELSE "404"

\* The router: which endpoint serves (method, path), or the status it
\* answers itself when none does.
Match(method, path) ==
    CASE path = HealthPath -> IF method = "GET" THEN "health_check" ELSE "405"
      [] path = MetricsPath -> IF method = "GET" THEN "metrics_endpoint" ELSE "405"
      [] MatchesUsersRoute(path) ->
            IF method \in RouteMethods THEN "user_service_proxy" ELSE "405"
      [] OTHER -> "404"

Exceeded_AtLimit(count) == count >= Limit

Exceeded_Exactly(count) == count = Limit + 1

FirstHit_Always(count) == count >= 1

\* Is this the first hit of a window (the request that arms the expiry)?
FirstHit(count) == count = 1

\* The admit/reject decision of the rate limiter.
Exceeded(count) == count > Limit

\* The headers of an inbound request, as the sequence of (name, value) lines
\* it arrived with: one line per name, or a name on two lines.
PlainHeaders == << <<"host", "gateway">>, <<"accept", "json">> >>
RepeatedHeaders == << <<"host", "gateway">>, <<"accept", "json">>, <<"accept", "xml">> >>
HeaderLists == {PlainHeaders, RepeatedHeaders}

\* The query string and the body of an inbound request.
InboundQuery == "page=2"
InboundBody == "{name}"
NoValue == "-"

\* ---------------------------------------------------------------- state
IdleReq ==
    [pc |-> "idle", client |-> "", method |-> "", path |-> <<>>,
     headers |-> <<>>, query |-> "", body |-> "", backend |-> "none", resp_body |-> "",
     count |-> 0, ord |-> 0, ageAt |-> 0, win |-> 0, status |-> 0, err |-> "none",
     out |-> <<>>, span_error |-> FALSE, span_message |-> "",
     hit |-> FALSE, result |-> "none", rec |-> <<>>, obs |-> <<>>, stages |-> <<>>]

NoKey == [count |-> 0, ttl |-> NoTTL]

\* The store as the gateway process finds it when it starts (Redis outlives
\* the process): key k holds entry e, every other key is missing.
InitFrom(k, e, a) ==
    /\ redis = [x \in Keys |-> IF x = k THEN e ELSE NoKey]
    /\ hits = [x \in Keys |-> IF x = k THEN e.count ELSE 0]
    /\ armed = [x \in Keys |-> IF x = k /\ e.ttl # NoTTL THEN 1 ELSE 0]
    /\ age = [x \in Keys |-> 0]
    /\ win = [x \in Keys |-> IF x = k /\ e.count > 0 THEN 1 ELSE 0]
    /\ req = [t \in Tasks |-> IdleReq]
    /\ ACTIVE_REQUESTS = 0
    /\ REQUEST_COUNT = EmptyBag
    /\ REQUEST_DURATION = EmptyBag
    /\ RATE_LIMIT_HITS = EmptyBag
    /\ arg = a
    /\ ret = <<>>

InitWith(k, e) == InitFrom(k, e, <<>>)

\* Entries a key can hold at that moment: missing, or a burst of requests
\* that has just brought the counter to the limit with the expiry armed.
InitEntries == {NoKey, [count |-> Limit, ttl |-> Window]}

\* The same, and a burst one short of the limit, and a burst whose first
\* request never armed the expiry (its EXPIRE call failed).
InitEntriesRL ==
    InitEntries \cup {[count |-> Limit - 1, ttl |-> Window], [count |-> Limit, ttl |-> NoTTL]}

Init == \E e \in InitEntries : InitWith(<<"10.0.0.1", UsersPath>>, e)

\* -------------------------------------------------------------- actions
\* metrics_middleware, up to the await of call_next.
metrics_middleware_enter(t, c, m, p, h) ==
    /\ req[t].pc = "idle"
    /\ \A u \in Tasks : u < t => req[u].pc # "idle"
    /\ Cardinality({u \in Tasks : req[u].pc \notin {"idle", "done"}}) < MaxInFlight
    /\ ACTIVE_REQUESTS' = ACTIVE_REQUESTS + 1
    /\ req' = [req EXCEPT ![t] = [IdleReq EXCEPT !.pc = "call_next", !.client = c,
                                                  !.method = m, !.path = p,
                                                  !.headers = h, !.query = InboundQuery,
                                                  !.body = InboundBody]]
    /\ UNCHANGED <<storeVars, REQUEST_COUNT, REQUEST_DURATION, RATE_LIMIT_HITS, fnVars>>

\* The router of the FastAPI app (routes declared at main.py:187, 192, 199):
\* an unmatched path is answered 404 and a matched path with another method
\* 405 by the router itself; otherwise the endpoint is entered.
route(t) ==
    /\ req[t].pc = "call_next"
    /\ LET r == req[t]
           e == Match(r.method, r.path)
           s == Append(r.stages, "route")
       IN req' = [req EXCEPT ![t] =
                CASE e = "404" -> [r EXCEPT !.pc = "mw_return", !.status = 404,
                                            !.err = "NoRoute", !.stages = s]
                  [] e = "405" -> [r EXCEPT !.pc = "mw_return", !.status = 405,
                                            !.err = "MethodNotSupported", !.stages = s]
                  [] e = "user_service_proxy" ->
                                  [r EXCEPT !.pc = "rate_limiter", !.stages = s]
                  [] OTHER -> [r EXCEPT !.pc = e, !.stages = s]]
    /\ UNCHANGED <<storeVars, metricVars, fnVars>>

health_check(t) ==
    /\ req[t].pc = "health_check"
    /\ req' = [req EXCEPT ![t].pc = "mw_return", ![t].status = 200]
    /\ UNCHANGED <<storeVars, metricVars, fnVars>>

metrics_endpoint(t) ==
    /\ req[t].pc = "metrics_endpoint"
    /\ req' = [req EXCEPT ![t].pc = "mw_return", ![t].status = 200]
    /\ UNCHANGED <<storeVars, metricVars, fnVars>>

\* Lines 117-122 of rate_limiter: the request after the decision on count.
Decided(r) ==
    IF Exceeded(r.count)
    THEN [r EXCEPT !.pc = "mw_return", !.status = 429, !.err = "RateLimitExceeded",
                   !.hit = TRUE, !.stages = Append(r.stages, "rate_limit")]
    ELSE [r EXCEPT !.pc = "user_service_proxy",
                   !.stages = Append(r.stages, "rate_limit")]

HitsAfter_Always(count, client_ip) == RATE_LIMIT_HITS (+) SetToBag({client_ip})

\* RATE_LIMIT_HITS after the decision on count for client_ip.
HitsAfter(count, client_ip) ==
    IF Exceeded(count) THEN RATE_LIMIT_HITS (+) SetToBag({client_ip})
    ELSE RATE_LIMIT_HITS

\* The request when a store call raises (redis ConnectionError): nothing
\* catches it below the middleware.
StoreError(r) == [r EXCEPT !.pc = "mw_raise", !.err = "UpstreamInfraUnavailable"]

\* What the store can do with one call: answer, fail the call (redis
\* ConnectionError), or never answer. The client is built by
\* redis.from_url(REDIS_URL, decode_responses=True), without socket_timeout.
StoreAnswers == {"ok", "error", "none"}

\* The request after a store call that did not succeed: an error raises, and
\* with no answer the await never returns (no timeout bounds it).
StoreFailure(r, answer) ==
    IF answer = "error" THEN StoreError(r) ELSE [r EXCEPT !.pc = "await_redis"]

\* Redis INCR: creates a missing key at 1 with no expiry, otherwise adds 1
\* and leaves the expiry as it is.
Incr(entry) == [count |-> entry.count + 1, ttl |-> entry.ttl]

Expire_Half(entry, seconds) ==
    IF entry.count > 0 THEN [entry EXCEPT !.ttl = seconds \div 2] ELSE entry

\* Redis EXPIRE: arms the expiry of an existing key, nothing on a missing one.
Expire(entry, seconds) ==
    IF entry.count > 0 THEN [entry EXCEPT !.ttl = seconds] ELSE entry

\* rate_limiter from its start to the await of expire (count = 1) or to its
\* end (count # 1).
rate_limiter_incr(t) ==
    /\ req[t].pc = "rate_limiter"
    /\ LET r == req[t]
           key == RateLimitKey(r.client, r.path)
       IN \E answer \in StoreAnswers :
            IF answer # "ok"
            THEN /\ req' = [req EXCEPT ![t] = StoreFailure(r, answer)]
                 /\ UNCHANGED <<storeVars, RATE_LIMIT_HITS>>
            ELSE LET created == redis[key].count = 0
                     count == Incr(redis[key]).count
                     r1 == [r EXCEPT !.count = count,
                                     !.ord = IF created THEN 1 ELSE hits[key] + 1,
                                     !.ageAt = IF created THEN 0 ELSE age[key],
                                     !.win = IF created THEN win[key] + 1 ELSE win[key]]
                 IN /\ redis' = [redis EXCEPT ![key] = Incr(redis[key])]
                    /\ hits' = [hits EXCEPT ![key] = r1.ord]
                    /\ age' = [age EXCEPT ![key] = r1.ageAt]
                    /\ armed' = [armed EXCEPT ![key] = IF created THEN 0 ELSE @]
                    /\ win' = [win EXCEPT ![key] = r1.win]
                    /\ IF FirstHit(count)
                       THEN /\ req' = [req EXCEPT ![t] = [r1 EXCEPT !.pc = "rate_limiter_expire"]]
                            /\ UNCHANGED RATE_LIMIT_HITS
                       ELSE /\ req' = [req EXCEPT ![t] = Decided(r1)]
                            /\ RATE_LIMIT_HITS' = HitsAfter(count, r.client)
    /\ UNCHANGED <<ACTIVE_REQUESTS, REQUEST_COUNT, REQUEST_DURATION, fnVars>>

\* rate_limiter from the await of expire to its end.
rate_limiter_expire(t) ==
    /\ req[t].pc = "rate_limiter_expire"
    /\ LET r == req[t]
           key == RateLimitKey(r.client, r.path)
       IN \E answer \in StoreAnswers :
            IF answer # "ok"
            THEN /\ req' = [req EXCEPT ![t] = StoreFailure(r, answer)]
                 /\ UNCHANGED <<redis, armed, RATE_LIMIT_HITS>>
            ELSE /\ redis' = [redis EXCEPT ![key] = Expire(@, Window)]
                 /\ armed' = [armed EXCEPT ![key] = @ + 1]
                 /\ req' = [req EXCEPT ![t] = Decided(r)]
                 /\ RATE_LIMIT_HITS' = HitsAfter(r.count, r.client)
    /\ UNCHANGED <<age, hits, win, ACTIVE_REQUESTS, REQUEST_COUNT, REQUEST_DURATION, fnVars>>

USER_SERVICE_URL == "http://localhost:3000"

\* dict(request.headers): one entry per name, holding the value of the first
\* line with that name.
HeadersDict(lines) ==
    LET names == {lines[i][1] : i \in 1..Len(lines)}
        first(n) == CHOOSE i \in 1..Len(lines) :
                        /\ lines[i][1] = n
                        /\ \A j \in 1..(i - 1) : lines[j][1] # n
    IN [n \in names |-> lines[first(n)][2]]

\* headers.pop('host', None)
PopHost(d) == [n \in (DOMAIN d) \ {"host"} |-> d[n]]

\* The outbound call proxy_request issues for a request, <<>> when its
\* method has no branch.
OutboundCall(service_url, path, r) ==
    LET url == <<service_url, path>>
        headers == PopHost(HeadersDict(r.headers))
    IN CASE r.method = "GET" ->
              <<[method |-> "GET", url |-> url, headers |-> headers,
                 params |-> r.query, content |-> NoValue]>>
         [] r.method = "POST" ->
              <<[method |-> "POST", url |-> url, headers |-> headers,
                 params |-> NoValue, content |-> r.body]>>
         [] r.method = "PUT" ->
              <<[method |-> "PUT", url |-> url, headers |-> headers,
                 params |-> NoValue, content |-> r.body]>>
         [] r.method = "DELETE" ->
              <<[method |-> "DELETE", url |-> url, headers |-> headers,
                 params |-> NoValue, content |-> NoValue]>>
         [] OTHER -> <<>>

\* user_service_proxy and proxy_request up to the await of the outbound call.
user_service_proxy(t) ==
    /\ req[t].pc = "user_service_proxy"
    /\ LET r == req[t]
           path == <<"", "api", "users">> \o SubSeq(r.path, 4, Len(r.path))
           call == OutboundCall(USER_SERVICE_URL, path, r)
       IN req' = [req EXCEPT ![t] =
                IF call = <<>>
                THEN [r EXCEPT !.pc = "mw_return", !.status = 405,
                               !.err = "MethodNotSupported"]
                ELSE [r EXCEPT !.pc = "await_backend", !.out = r.out \o call,
                               !.stages = Append(r.stages, "forward")]]
    /\ UNCHANGED <<storeVars, metricVars, fnVars>>

\* What the backend can do with one outbound call: answer with a JSON body,
\* answer with a body that is not JSON, or fail at network level
\* (httpx.RequestError: refused connection, DNS failure, the 30 s timeout).
BackendResults ==
    {[kind |-> "json", status |-> 200, body |-> "{id}", message |-> ""],
     [kind |-> "json", status |-> 500, body |-> "{error}", message |-> ""],
     [kind |-> "notjson", status |-> 200, body |-> "<html>", message |-> ""],
     [kind |-> "RequestError", status |-> 0, body |-> "", message |-> "ConnectError"],
     [kind |-> "RequestError", status |-> 0, body |-> "", message |-> "ReadTimeout"]}

ProxyOutcome_Uncaught(r, b) ==
    IF b.kind = "json"
    THEN [r EXCEPT !.pc = "mw_return", !.status = b.status,
                   !.stages = Append(r.stages, "relay")]
    ELSE [r EXCEPT !.pc = "mw_raise"]

\* proxy_request after the outbound call: the request given the backend's result.
ProxyOutcome(r, b) ==
    CASE b.kind = "json" ->
            [r EXCEPT !.pc = "mw_return", !.status = b.status, !.resp_body = b.body,
                      !.stages = Append(r.stages, "relay")]
      [] b.kind = "notjson" ->
            [r EXCEPT !.pc = "mw_raise", !.err = "MalformedUpstreamResponse"]
      [] OTHER ->
            [r EXCEPT !.pc = "mw_return", !.status = 503, !.err = "BackendUnavailable",
                      !.span_error = TRUE, !.span_message = b.message]

\* proxy_request from the return of the outbound call, the backend's result
\* being one of results.
proxy_request_with(t, results) ==
    /\ req[t].pc = "await_backend"
    /\ \E b \in results :
          req' = [req EXCEPT ![t] = [ProxyOutcome(req[t], b) EXCEPT !.result = b.kind, !.backend = b]]
    /\ UNCHANGED <<storeVars, metricVars, fnVars>>

proxy_request(t) == proxy_request_with(t, BackendResults)

\* metrics_middleware after call_next: a response is counted and timed, an
\* exception is not (it leaves through the finally clause and the server
\* answers 500).
MiddlewareExit(r) ==
    LET base_endpoint == get_base_endpoint(r.path)
    IN IF r.pc = "mw_return"
       THEN [r EXCEPT !.pc = "done",
                      !.rec = Append(r.rec, <<r.method, base_endpoint, r.status>>),
                      !.obs = Append(r.obs, <<r.method, base_endpoint>>),
                      !.stages = Append(r.stages, "metrics")]
       ELSE [r EXCEPT !.pc = "done", !.status = 500]

GaugeAfterExit_NoFinally(r, gauge) == IF r.pc = "mw_raise" THEN gauge ELSE gauge - 1

\* ACTIVE_REQUESTS after the finally clause.
GaugeAfterExit(r, gauge) == gauge - 1

metrics_middleware_exit(t) ==
    /\ req[t].pc \in {"mw_return", "mw_raise"}
    /\ LET r == req[t]
           r1 == MiddlewareExit(r)
       IN /\ req' = [req EXCEPT ![t] = r1]
          /\ REQUEST_COUNT' = REQUEST_COUNT (+) SetToBag({r1.rec[i] : i \in 1..Len(r1.rec)})
          /\ REQUEST_DURATION' = REQUEST_DURATION (+) SetToBag({r1.obs[i] : i \in 1..Len(r1.obs)})
          /\ ACTIVE_REQUESTS' = GaugeAfterExit(r, ACTIVE_REQUESTS)
    /\ UNCHANGED <<storeVars, RATE_LIMIT_HITS, fnVars>>

\* TickStep seconds pass: every key ages, and a key whose expiry is reached
\* is deleted by the store.
Expired(entry) == entry.count > 0 /\ entry.ttl # NoTTL /\ entry.ttl - TickStep <= 0

Tick ==
    /\ redis' = [k \in Keys |->
                    IF Expired(redis[k]) THEN NoKey
                    ELSE IF redis[k].ttl = NoTTL THEN redis[k]
                    ELSE [redis[k] EXCEPT !.ttl = @ - TickStep]]
    /\ age' = [k \in Keys |->
                    IF Expired(redis[k]) \/ redis[k].count = 0 THEN 0
                    ELSE Min(age[k] + TickStep, Window)]
    /\ hits' = [k \in Keys |-> IF Expired(redis[k]) THEN 0 ELSE hits[k]]
    /\ armed' = [k \in Keys |-> IF Expired(redis[k]) THEN 0 ELSE armed[k]]
    /\ UNCHANGED <<win, req, metricVars, fnVars>>

\* ------------------------------------------------------------ properties
Has(seq, x) == \E i \in 1..Len(seq) : seq[i] = x
Pos(seq, x) == CHOOSE i \in 1..Len(seq) : seq[i] = x
Before(seq, a, b) == (Has(seq, a) /\ Has(seq, b)) => Pos(seq, a) < Pos(seq, b)
InFlight(t) == req[t].pc \notin {"idle", "done"}
Checked(r) == Has(r.stages, "rate_limit")

\* C1: counting the rate-limit checks on a key from the one that created its
\* counter, every check that is among the first 100 and within 60 seconds of
\* the first passes and its request is forwarded, and the 101st within those
\* 60 seconds is rejected with 429 and not forwarded.
C1_FirstHundredAdmitted ==
    \A t \in Tasks :
        LET r == req[t]
        IN (Checked(r) /\ r.ageAt < Window) =>
              /\ r.ord <= Limit =>
                    /\ r.status # 429
                    /\ r.pc # "user_service_proxy" => Len(r.out) = 1
              /\ r.ord = Limit + 1 => (r.status = 429 /\ r.out = <<>>)

C1_Witness ==
    \E t, u \in Tasks :
        /\ req[t].pc = "done" /\ req[t].ord = Limit /\ req[t].ageAt < Window
        /\ Len(req[t].out) = 1 /\ req[t].status = 200
        /\ req[u].pc = "done" /\ req[u].ord = Limit + 1 /\ req[u].ageAt < Window
        /\ req[u].status = 429

\* C2: once a key's counter has passed 100, a check made 60 seconds or more
\* after the first hit of that window finds the counter reset: it observes 1
\* and is not rejected.
C2_ResetAfterWindow ==
    \A t \in Tasks :
        LET r == req[t]
        IN (Checked(r) /\ r.count - 1 > Limit /\ r.ageAt >= Window) =>
              (r.count = 1 /\ r.status # 429)

\* C3: the active-request gauge equals the number of requests in flight, so
\* it is never negative and is 0 when none is in flight, whatever way the
\* completed requests ended.
C3_GaugeIsInFlight ==
    ACTIVE_REQUESTS = Cardinality({t \in Tasks : InFlight(t)})

C3_Witness ==
    /\ ACTIVE_REQUESTS = 1
    /\ \E t, u \in Tasks :
          /\ req[t].pc = "done" /\ req[t].status = 500 /\ req[t].rec = <<>>
          /\ InFlight(u)

\* C4: a completed request whose path matches no route was answered 404,
\* issued no outbound call, and went through the rate-limit check (it
\* incremented its key's counter).
C4_NoRouteStillRateLimited ==
    \A t \in Tasks :
        LET r == req[t]
        IN (r.pc = "done" /\ Match(r.method, r.path) = "404") =>
              (r.status = 404 /\ r.out = <<>> /\ Checked(r) /\ r.count >= 1)

\* The status the error taxonomy assigns to each error.
TaxonomyStatus(err) ==
    CASE err = "RateLimitExceeded" -> 429
      [] err = "NoRoute" -> 404
      [] err = "MethodNotSupported" -> 405
      [] err = "BackendUnavailable" -> 503
      [] err = "UpstreamInfraUnavailable" -> 503
      [] err = "MalformedUpstreamResponse" -> 502

\* C5: a completed request that met an error of the taxonomy carries that
\* error's own status (429, 404, 405, 503, 503, 502), never a generic 500.
C5_ErrorStatuses ==
    \A t \in Tasks :
        LET r == req[t]
        IN (r.pc = "done" /\ r.err # "none") => r.status = TaxonomyStatus(r.err)

\* C6: a completed request has recorded exactly one increment of the request
\* count under (method, normalized endpoint, final status) and exactly one
\* duration observation under (method, normalized endpoint).
C6_TelemetryOnEveryExit ==
    \A t \in Tasks :
        LET r == req[t]
            e == get_base_endpoint(r.path)
        IN r.pc = "done" =>
              /\ r.rec = << <<r.method, e, r.status>> >>
              /\ r.obs = << <<r.method, e>> >>
              /\ BagIn(<<r.method, e, r.status>>, REQUEST_COUNT)
              /\ BagIn(<<r.method, e>>, REQUEST_DURATION)

\* C7: within a request the rate-limit check precedes routing, routing the
\* outbound call, the outbound call the relay of the response, and the relay
\* the recording of the metrics; no outbound call is issued before the check
\* has admitted the request.
C7_StageOrder ==
    \A t \in Tasks :
        LET s == req[t].stages
        IN /\ Before(s, "rate_limit", "route")
           /\ Before(s, "route", "forward")
           /\ Before(s, "forward", "relay")
           /\ Before(s, "relay", "metrics")
           /\ req[t].out # <<>> => (Has(s, "rate_limit") /\ req[t].count <= Limit)

C9_BackendFailure503 ==
    \A t \in Tasks :
        LET r == req[t]
        IN r.result = "RequestError" =>
              /\ r.pc \in {"mw_return", "done"}
              /\ r.status = 503
              /\ r.span_error /\ r.span_message \in {"ConnectError", "ReadTimeout"}

C9_Witness ==
    \E t \in Tasks :
        /\ req[t].pc = "done" /\ req[t].result = "RequestError"
        /\ req[t].status = 503 /\ req[t].span_message = "ReadTimeout"
        /\ Len(req[t].out) = 1

\* C10: a completed request whose rate-limit check found the counter store
\* unreachable issued no outbound call, was not counted as a rate-limit hit,
\* and was answered 503.
C10_StoreUnreachable503 ==
    \A t \in Tasks :
        LET r == req[t]
        IN (r.pc = "done" /\ r.err = "UpstreamInfraUnavailable") =>
              /\ r.out = <<>>
              /\ ~r.hit
              /\ r.status = 503

\* C11: every request that has entered the gateway eventually gets a response
\* with a status code.
C11_EveryRequestAnswered ==
    \A t \in Tasks :
        (req[t].pc # "idle") ~> (req[t].pc = "done" /\ req[t].status # 0)

\* Is task t inside the rate-limit check of key k?
Checking(t, k) ==
    /\ req[t].pc \in {"rate_limiter", "rate_limiter_expire"}
    /\ <<req[t].client, req[t].path>> = k

\* C12: in every window of every key the expiry is armed at most once, and
\* only by the request whose increment returned 1; the counter never
\* decreases except when the store expires the key.
C12_ArmOncePerWindow ==
    [][\A k \in Keys :
          /\ armed'[k] <= 1
          /\ armed'[k] > armed[k] =>
                \E t \in Tasks : Checking(t, k) /\ req[t].count = 1 /\ req'[t].pc # req[t].pc
          /\ redis'[k].count < redis[k].count =>
                (redis[k].ttl # NoTTL /\ redis[k].ttl <= TickStep /\ redis'[k].count = 0)]_vars

C12_Witness ==
    LET k == <<"10.0.0.1", UsersPath>>
    IN /\ armed[k] = 1 /\ redis[k].count = 2 /\ redis[k].ttl = Window
       /\ req[1].pc = "done" /\ req[1].count = 1
       /\ req[2].pc = "done" /\ req[2].count = 2 /\ req[2].ageAt = 0
       /\ Has(req[2].stages, "metrics")

\* C13: a key's counter is never reset earlier than 60 seconds after the
\* increment that created it.
C13_WindowNeverShorter ==
    [][\A k \in Keys :
          (redis[k].count > 0 /\ redis'[k].count = 0) =>
              age[k] + redis[k].ttl >= Window]_vars

C13_Witness ==
    \E t, u \in Tasks :
        /\ t # u /\ req[t].client = req[u].client /\ req[t].path = req[u].path
        /\ Checked(req[t]) /\ req[t].count = 1
        /\ Checked(req[u]) /\ req[u].count = 1

\* C14: a request to /health or /metrics never goes through the rate-limit
\* check, creates or increments no counter, adds no rate-limit hit, issues no
\* outbound call and is never answered 429.
C14_HealthMetricsBypass ==
    \A t \in Tasks :
        LET r == req[t]
        IN (r.pc # "idle" /\ r.path \in {<<"", "health">>, <<"", "metrics">>}) =>
              /\ r.pc \notin {"rate_limiter", "rate_limiter_expire", "await_redis"}
              /\ ~Checked(r) /\ r.count = 0 /\ ~r.hit
              /\ redis[<<r.client, r.path>>].count = 0
              /\ r.out = <<>>
              /\ r.status # 429

C14_Witness ==
    /\ req[1].pc = "done" /\ req[1].path = <<"", "health">> /\ req[1].status = 200
    /\ req[2].pc = "done" /\ req[2].path = <<"", "metrics">> /\ req[2].status = 200
    /\ req[1].client = req[2].client
    /\ RATE_LIMIT_HITS = EmptyBag

\* C15: the rate-limit-hit metric of a client equals the number of requests
\* of that client the rate limiter has rejected with 429; an admitted
\* request adds nothing to it.
C15_HitsCountRejections ==
    \A c \in Clients :
        CopiesIn(c, RATE_LIMIT_HITS)
            = Cardinality({t \in Tasks : req[t].client = c /\ req[t].status = 429})

C15_Witness ==
    /\ CopiesIn("10.0.0.1", RATE_LIMIT_HITS) = 1
    /\ CopiesIn("10.0.0.2", RATE_LIMIT_HITS) = 0
    /\ \E t, u \in Tasks :
          /\ req[t].client = "10.0.0.1" /\ req[t].pc = "done" /\ req[t].status = 429
          /\ req[u].client = "10.0.0.2" /\ req[u].pc = "done" /\ req[u].status = 200
          /\ req[u].out # <<>>

\* Do requests r and q count in the same window of the same key?
SameWindow(r, q) ==
    /\ r.client = q.client /\ r.path = q.path
    /\ r.win > 0 /\ r.win = q.win

\* C18: within one window of a key no two requests observe the same
\* post-increment value, only requests that observed a value of at most 100
\* are forwarded, every request that observed more is rejected without an
\* outbound call, and so is every request that counted after a rejected one.
C18_AtMostLimitForwarded ==
    \A t \in Tasks :
        LET r == req[t]
        IN /\ r.out # <<>> => (Checked(r) /\ r.count \in 1..Limit)
           /\ (Checked(r) /\ r.count > Limit) => (r.status = 429 /\ r.out = <<>>)
           /\ \A u \in Tasks \ {t} :
                 SameWindow(r, req[u]) =>
                    /\ r.count # req[u].count
                    /\ (Checked(r) /\ req[u].status = 429 /\ r.count > req[u].count)
                          => r.status = 429

C18_Witness ==
    /\ SameWindow(req[1], req[2])
    /\ req[1].count = Limit + 2 /\ req[1].status = 429 /\ req[1].out = <<>>
    /\ req[2].count = Limit + 1 /\ req[2].status = 429 /\ req[2].pc = "done"

\* C19: a counter that exists while no rate-limit check is in progress on its
\* key has an expiry armed.
C19_CounterAlwaysExpires ==
    \A k \in Keys :
        (/\ redis[k].count > 0
         /\ ~\E t \in Tasks :
                /\ req[t].pc \in {"rate_limiter", "rate_limiter_expire", "await_redis"}
                /\ <<req[t].client, req[t].path>> = k)
            => redis[k].ttl # NoTTL

\* C20: a rate-limit check changes the counter of its own (client, full
\* path) key only, and the value it observes is that counter's: no request
\* of another client or to another path changes it.
C20_KeysIsolated ==
    [][\A t \in Tasks :
          (req[t].pc = "rate_limiter" /\ req'[t].pc # req[t].pc) =>
              LET own == <<req[t].client, req[t].path>>
              IN /\ \A k \in Keys \ {own} : redis'[k] = redis[k]
                 /\ req'[t].count > 0 =>
                       /\ req'[t].count = redis[own].count + 1
                       /\ redis'[own].count = redis[own].count + 1]_vars

C20_Witness ==
    /\ req[1].pc = "done" /\ req[1].client = "10.0.0.1" /\ req[1].path = UsersPath
    /\ req[1].status = 429
    /\ req[2].pc = "done" /\ req[2].client = "10.0.0.1" /\ req[2].path = UsersPath2
    /\ req[2].count = 1 /\ req[2].status = 200
    /\ redis[<<"10.0.0.2", UsersPath>>].count = 0

\* The header lines the forwarder is to send: every inbound line but host.
AllButHost(lines) == {lines[i] : i \in {j \in 1..Len(lines) : lines[j][1] # "host"}}
HeaderLines(d) == {<<n, d[n]>> : n \in DOMAIN d}

\* C16: an admitted request with a supported method issues exactly one
\* outbound call, with the inbound method, to backend_base_url + original
\* path, with every inbound header except host, with the query for GET and
\* the body for POST and PUT; a JSON answer of the backend is relayed with
\* its status and body unchanged.
C16_ForwardedVerbatim ==
    \A t \in Tasks :
        LET r == req[t]
        IN (Checked(r) /\ r.count <= Limit /\ r.pc # "user_service_proxy"
                /\ r.method \in {"GET", "POST", "PUT", "DELETE"}) =>
              /\ Len(r.out) = 1
              /\ r.out[1].method = r.method
              /\ r.out[1].url = <<USER_SERVICE_URL, r.path>>
              /\ HeaderLines(r.out[1].headers) = AllButHost(r.headers)
              /\ r.method = "GET" => r.out[1].params = r.query
              /\ r.method \in {"POST", "PUT"} => r.out[1].content = r.body
              /\ (r.pc = "done" /\ r.result = "json") =>
                    (r.status = r.backend.status /\ r.resp_body = r.backend.body)

\* The first two segments of a path ("/a/b/c" -> "/a/b"; a shorter path whole).
FirstTwoSegments(parts) == IF Len(parts) > 3 THEN SubSeq(parts, 1, 3) ELSE parts

\* C17: the normalized endpoint of every path is its first two segments, and
\* normalizing a normalized endpoint returns it unchanged.
C17_FirstTwoSegments ==
    ret # <<>> =>
        /\ ret = FirstTwoSegments(arg)
        /\ get_base_endpoint(ret) = ret

Next ==
    \/ \E t \in Tasks, mp \in Requests :
          metrics_middleware_enter(t, "10.0.0.1", mp[1], mp[2], PlainHeaders)
    \/ \E t \in Tasks : route(t)
    \/ \E t \in Tasks : health_check(t)
    \/ \E t \in Tasks : metrics_endpoint(t)
    \/ \E t \in Tasks : rate_limiter_incr(t)
    \/ \E t \in Tasks : rate_limiter_expire(t)
    \/ \E t \in Tasks : user_service_proxy(t)
    \/ \E t \in Tasks : proxy_request(t)
    \/ \E t \in Tasks : metrics_middleware_exit(t)

Spec == Init /\ [][Next]_vars

\* The steps of the task of one request after it has entered.
TaskStep(t) ==
    \/ route(t)
    \/ health_check(t)
    \/ metrics_endpoint(t)
    \/ rate_limiter_incr(t)
    \/ rate_limiter_expire(t)
    \/ user_service_proxy(t)
    \/ proxy_request(t)
    \/ metrics_middleware_exit(t)

\* The event loop runs every task that can take a step.
SpecLive == Init /\ [][Next]_vars /\ \A t \in Tasks : WF_vars(TaskStep(t))

\* Key isolation: GET requests of two clients to two users paths, one key
\* possibly at the limit already.
NextIso ==
    \/ \E t \in Tasks, c \in Clients, p \in {UsersPath, UsersPath2} :
          metrics_middleware_enter(t, c, "GET", p, PlainHeaders)
    \/ \E t \in Tasks : route(t)
    \/ \E t \in Tasks : rate_limiter_incr(t)
    \/ \E t \in Tasks : rate_limiter_expire(t)
    \/ \E t \in Tasks : user_service_proxy(t)
    \/ \E t \in Tasks : proxy_request(t)
    \/ \E t \in Tasks : metrics_middleware_exit(t)

SpecIso == Init /\ [][NextIso]_vars

\* The forwarder: requests with each supported method to the users path,
\* with plain or repeated header lines, on an empty store.
InitFwd == InitWith(<<"10.0.0.1", UsersPath>>, NoKey)

NextFwd ==
    \/ \E t \in Tasks, m \in {"GET", "POST", "PUT", "DELETE"}, h \in HeaderLists :
          metrics_middleware_enter(t, "10.0.0.1", m, UsersPath, h)
    \/ \E t \in Tasks : route(t)
    \/ \E t \in Tasks : rate_limiter_incr(t)
    \/ \E t \in Tasks : rate_limiter_expire(t)
    \/ \E t \in Tasks : user_service_proxy(t)
    \/ \E t \in Tasks : proxy_request(t)
    \/ \E t \in Tasks : metrics_middleware_exit(t)

SpecFwd == InitFwd /\ [][NextFwd]_vars

\* get_base_endpoint on its own: every path of up to MaxSegments segments.
Segments == {"api", "users", "v1", "123"}
NormPaths ==
    UNION {{<<"">> \o s : s \in [1..n -> Segments]} : n \in 1..MaxSegments}

InitNorm == \E a \in NormPaths : InitFrom(<<"10.0.0.1", UsersPath>>, NoKey, a)

call_get_base_endpoint ==
    /\ arg # <<>>
    /\ ret = <<>>
    /\ ret' = get_base_endpoint(arg)
    /\ UNCHANGED <<storeVars, req, metricVars, arg>>

NextNorm == call_get_base_endpoint

SpecNorm == InitNorm /\ [][NextNorm]_vars

\* The results of a backend that is up and answers 200 with JSON.
HealthyResults == {b \in BackendResults : b.kind = "json" /\ b.status = 200}

\* The rate limiter over time: GET requests of one client to one users path,
\* the clock, a healthy backend, and a store that may already be at the edge
\* of the limit.
InitRL == \E e \in InitEntriesRL : InitWith(<<"10.0.0.1", UsersPath>>, e)

NextRL ==
    \/ \E t \in Tasks : metrics_middleware_enter(t, "10.0.0.1", "GET", UsersPath, PlainHeaders)
    \/ \E t \in Tasks : route(t)
    \/ \E t \in Tasks : rate_limiter_incr(t)
    \/ \E t \in Tasks : rate_limiter_expire(t)
    \/ \E t \in Tasks : user_service_proxy(t)
    \/ \E t \in Tasks : proxy_request_with(t, HealthyResults)
    \/ \E t \in Tasks : metrics_middleware_exit(t)
    \/ Tick

SpecRL == InitRL /\ [][NextRL]_vars
====
